---- MODULE Spec2Model ----
(***************************************************************************)
(* Period resolution of the coinapi bindings (src/src/lib.rs): the catalog  *)
(* SUPPORTED_PERIODS, the lazily computed table SUPPORTED_PERIOD_DURATIONS, *)
(* Period::get_nearest / new_exact / new / duration, and Display.           *)
(*                                                                         *)
(* A std::time::Duration is the record [secs, nanos] with                   *)
(* 0 <= nanos < NANOS_PER_SEC, ordered lexicographically, as in std.        *)
(* A panic is the value Panic, never an evaluation error.                   *)
(***************************************************************************)
EXTENDS Integers, Sequences, FiniteSets

\* ------------------------------------------------------------------------
\* Bounds of the model
\* ------------------------------------------------------------------------

\* Requested durations are drawn within Window steps around each anchor.
Window == 1

\* A step is 1/NanoSteps of a second.
NanoSteps == 2

\* ------------------------------------------------------------------------
\* std::time::Duration
\* ------------------------------------------------------------------------

NANOS_PER_SEC == 1000000000

Panic == [tag |-> "panic"]

\* Duration::from_secs
from_secs(s) == [secs |-> s, nanos |-> 0]

\* impl Mul<u32> for Duration (no overflow of u64 seconds in this domain)
DurMul(d, k) ==
    [secs  |-> d.secs * k + ((d.nanos * k) \div NANOS_PER_SEC),
     nanos |-> (d.nanos * k) % NANOS_PER_SEC]

\* derive(PartialOrd, Ord) on Duration {secs, nanos}
DurLess(a, b) == a.secs < b.secs \/ (a.secs = b.secs /\ a.nanos < b.nanos)

DurLe(a, b) == a = b \/ DurLess(a, b)

\* impl Sub for Duration: checked_sub(..).expect("overflow when subtracting
\* durations"), so a negative difference panics.
DurSub(a, b) ==
    IF DurLess(a, b) THEN Panic
    ELSE IF a.nanos >= b.nanos
         THEN [secs |-> a.secs - b.secs, nanos |-> a.nanos - b.nanos]
         ELSE [secs |-> a.secs - 1 - b.secs,
               nanos |-> a.nanos + NANOS_PER_SEC - b.nanos]

\* ------------------------------------------------------------------------
\* PeriodInner, Period and the catalog
\* ------------------------------------------------------------------------

Second(n) == [unit |-> "Second", n |-> n]
Minute(n) == [unit |-> "Minute", n |-> n]
Hour(n)   == [unit |-> "Hour",   n |-> n]
Day(n)    == [unit |-> "Day",    n |-> n]

\* const fn p(inner) -> Period
p(inner) == inner

SUPPORTED_PERIODS ==
    << p(Second(1)), p(Second(2)), p(Second(3)), p(Second(4)), p(Second(5)),
       p(Second(6)), p(Second(10)), p(Second(15)), p(Second(20)), p(Second(30)),
       p(Minute(1)), p(Minute(2)), p(Minute(3)), p(Minute(4)), p(Minute(5)),
       p(Minute(6)), p(Minute(10)), p(Minute(15)), p(Minute(20)), p(Minute(30)),
       p(Hour(1)), p(Hour(2)), p(Hour(3)), p(Hour(4)), p(Hour(6)), p(Hour(8)),
       p(Hour(12)),
       p(Day(1)), p(Day(2)), p(Day(3)), p(Day(5)), p(Day(7)), p(Day(10)) >>

\* Rust indexing arr[i], 0-based; out of range panics.
Index(arr, i) == IF i \in 0..(Len(arr) - 1) THEN arr[i + 1] ELSE Panic

\* Faulty variant of period_to_duration: an hour counted as 60 seconds.
period_to_duration_hour60(q) ==
    CASE q.unit = "Second" -> from_secs(q.n)
      [] q.unit = "Minute" -> DurMul(from_secs(q.n), 60)
      [] q.unit = "Hour"   -> DurMul(from_secs(q.n), 60)
      [] q.unit = "Day"    -> DurMul(DurMul(DurMul(from_secs(q.n), 60), 60), 24)

\* The closure mapped over SUPPORTED_PERIODS by the lazy_static initialiser.
period_to_duration(q) ==
    CASE q.unit = "Second" -> from_secs(q.n)
      [] q.unit = "Minute" -> DurMul(from_secs(q.n), 60)
      [] q.unit = "Hour"   -> DurMul(DurMul(from_secs(q.n), 60), 60)
      [] q.unit = "Day"    -> DurMul(DurMul(DurMul(from_secs(q.n), 60), 60), 24)

\* The value the lazy_static computes on first dereference.
period_durations_init ==
    [i \in 1..Len(SUPPORTED_PERIODS) |-> period_to_duration(SUPPORTED_PERIODS[i])]

\* ------------------------------------------------------------------------
\* Period::get_nearest
\* ------------------------------------------------------------------------

\* Result<Period, Period> together with what the call evaluated: subs is the
\* set of subtractions <<minuend, subtrahend>> and reads the set of indices
\* used on periods[..] and durations[..] outside the binary search.
Outcome(tag, val, subs, reads) ==
    [tag |-> tag, val |-> val, subs |-> subs, reads |-> reads]

\* <[Duration]>::binary_search: Ok(index) when found, otherwise
\* Err(insertion index).
RECURSIVE binary_search_loop(_, _, _, _)
binary_search_loop(arr, x, left, right) ==
    IF left >= right
    THEN [tag |-> "Err", i |-> left]
    ELSE LET size == right - left
             mid  == left + (size \div 2)
         IN  IF arr[mid + 1] = x
             THEN [tag |-> "Ok", i |-> mid]
             ELSE IF DurLess(arr[mid + 1], x)
                  THEN binary_search_loop(arr, x, mid + 1, right)
                  ELSE binary_search_loop(arr, x, left, mid)

\* Faulty variant of binary_search: the element found is reported one index low.
binary_search_off_by_one(arr, x) ==
    LET r == binary_search_loop(arr, x, 0, Len(arr))
    IN  IF r.tag = "Ok" /\ r.i > 0 THEN [tag |-> "Ok", i |-> r.i - 1] ELSE r

binary_search(arr, x) == binary_search_loop(arr, x, 0, Len(arr))

\* lower_dist and higher_dist of the "Find the nearest one" block, with
\* the subtractions and index reads they take; Panic when one underflows or
\* an index is out of range.
distances(durations, duration, i) ==
    LET lo == Index(durations, i - 1)
        hi == Index(durations, i)
    IN  [lower_dist  |-> IF lo = Panic THEN Panic ELSE DurSub(duration, lo),
         higher_dist |-> IF hi = Panic THEN Panic ELSE DurSub(hi, duration),
         subs        |-> {<<duration, lo>>, <<hi, duration>>},
         reads       |-> {i - 1, i}]

Panicked(ds) == ds.lower_dist = Panic \/ ds.higher_dist = Panic

\* Faulty variant of find_nearest: a tie goes to the lower entry (<= for <).
find_nearest_tie_low(durations, duration, i) ==
    LET periods == SUPPORTED_PERIODS
        ds      == distances(durations, duration, i)
    IN  IF Panicked(ds)
        THEN Outcome("panic", Panic, ds.subs, ds.reads)
        ELSE IF DurLe(ds.lower_dist, ds.higher_dist)
             THEN Outcome("Err", Index(periods, i - 1), ds.subs, ds.reads)
             ELSE Outcome("Err", Index(periods, i), ds.subs, ds.reads)

\* Faulty variant of find_nearest: the comparison is reversed (> for <).
find_nearest_reversed(durations, duration, i) ==
    LET periods == SUPPORTED_PERIODS
        ds      == distances(durations, duration, i)
    IN  IF Panicked(ds)
        THEN Outcome("panic", Panic, ds.subs, ds.reads)
        ELSE IF DurLess(ds.higher_dist, ds.lower_dist)
             THEN Outcome("Err", Index(periods, i - 1), ds.subs, ds.reads)
             ELSE Outcome("Err", Index(periods, i), ds.subs, ds.reads)

\* Faulty variant of find_nearest: always the entry above the insertion
\* point.
find_nearest_always_high(durations, duration, i) ==
    LET periods == SUPPORTED_PERIODS
        ds      == distances(durations, duration, i)
    IN  IF Panicked(ds)
        THEN Outcome("panic", Panic, ds.subs, ds.reads)
        ELSE Outcome("Err", Index(periods, i), ds.subs, ds.reads)

\* The else block of get_nearest: lower_dist < higher_dist picks
\* periods[i - 1], anything else periods[i].
find_nearest(durations, duration, i) ==
    LET periods == SUPPORTED_PERIODS
        ds      == distances(durations, duration, i)
    IN  IF Panicked(ds)
        THEN Outcome("panic", Panic, ds.subs, ds.reads)
        ELSE IF DurLess(ds.lower_dist, ds.higher_dist)
             THEN Outcome("Err", Index(periods, i - 1), ds.subs, ds.reads)
             ELSE Outcome("Err", Index(periods, i), ds.subs, ds.reads)

\* Faulty variant of on_missing: the i == 0 and i == periods.len() tests are gone.
on_missing_unclamped(durations, duration, i) ==
    find_nearest(durations, duration, i)

\* The Err(i) arm of the match on binary_search.
on_missing(durations, duration, i) ==
    LET periods == SUPPORTED_PERIODS
    IN  IF i = 0
        THEN Outcome("Err", Index(periods, 0), {}, {0})
        ELSE IF i = Len(periods)
             THEN Outcome("Err", Index(periods, Len(periods) - 1), {},
                          {Len(periods) - 1})
             ELSE find_nearest(durations, duration, i)

\* Period::get_nearest over the dereferenced table.
get_nearest(durations, duration) ==
    LET periods == SUPPORTED_PERIODS
        found   == binary_search(durations, duration)
    IN  IF found.tag = "Ok"
        THEN Outcome("Ok", Index(periods, found.i), {}, {found.i})
        ELSE on_missing(durations, duration, found.i)

\* The Result alone.
Result(o) == [tag |-> o.tag, val |-> o.val]

\* Faulty variant of new_exact: the error carries the smallest period as closest.
new_exact_wrong_closest(durations, duration) ==
    LET r == Result(get_nearest(durations, duration))
    IN  IF r.tag = "Err"
        THEN [tag |-> "Err",
              val |-> [requested |-> duration, closest |-> SUPPORTED_PERIODS[1]]]
        ELSE r

\* Period::new_exact: map_err(|closest| ExactError { requested, closest }).
new_exact(durations, duration) ==
    LET r == Result(get_nearest(durations, duration))
    IN  IF r.tag = "Err"
        THEN [tag |-> "Err",
              val |-> [requested |-> duration, closest |-> r.val]]
        ELSE r

\* Faulty variant of new: the Err arm yields the requested duration's lower bound,
\* the first catalog period.
new_err_first(durations, duration) ==
    LET r == new_exact(durations, duration)
    IN  IF r.tag = "Ok" THEN r.val
        ELSE IF r.tag = "Err" THEN SUPPORTED_PERIODS[1]
        ELSE Panic

\* Period::new: Ok(p) => p, Err(err) => err.closest.
new(durations, duration) ==
    LET r == new_exact(durations, duration)
    IN  IF r.tag = "Ok" THEN r.val
        ELSE IF r.tag = "Err" THEN r.val.closest
        ELSE Panic

\* Period::duration(&self): the body is todo!(), which panics.
Period_duration(self) == Panic

\* ------------------------------------------------------------------------
\* impl Display for Period
\* ------------------------------------------------------------------------

Digits == <<"0", "1", "2", "3", "4", "5", "6", "7", "8", "9">>

\* "{}" of a u8: decimal, most significant digit first, no padding.
RECURSIVE fmt_u8(_)
fmt_u8(n) ==
    IF n < 10 THEN Digits[n + 1]
    ELSE fmt_u8(n \div 10) \o Digits[(n % 10) + 1]

\* Faulty variant of fmt: hours get the suffix of minutes.
fmt_hour_as_min(self) ==
    CASE self.unit = "Second" -> fmt_u8(self.n) \o "SEC"
      [] self.unit = "Minute" -> fmt_u8(self.n) \o "MIN"
      [] self.unit = "Hour"   -> fmt_u8(self.n) \o "MIN"
      [] self.unit = "Day"    -> fmt_u8(self.n) \o "DAY"

\* Display::fmt, i.e. to_string().
fmt(self) ==
    CASE self.unit = "Second" -> fmt_u8(self.n) \o "SEC"
      [] self.unit = "Minute" -> fmt_u8(self.n) \o "MIN"
      [] self.unit = "Hour"   -> fmt_u8(self.n) \o "HRS"
      [] self.unit = "Day"    -> fmt_u8(self.n) \o "DAY"

\* The array s of tests::period_formattintg.
ExpectedTokens ==
    << "1SEC", "2SEC", "3SEC", "4SEC", "5SEC", "6SEC", "10SEC", "15SEC",
       "20SEC", "30SEC",
       "1MIN", "2MIN", "3MIN", "4MIN", "5MIN", "6MIN", "10MIN", "15MIN",
       "20MIN", "30MIN",
       "1HRS", "2HRS", "3HRS", "4HRS", "6HRS", "8HRS", "12HRS", "1DAY",
       "2DAY", "3DAY",
       "5DAY", "7DAY", "10DAY" >>

Range(f) == {f[i] : i \in DOMAIN f}

\* tests::period_formattintg: real is the rendering of the whole catalog;
\* the test passes when the lengths agree and real contains every token.
period_formattintg ==
    LET real == [i \in 1..Len(SUPPORTED_PERIODS) |-> fmt(SUPPORTED_PERIODS[i])]
    IN  [tag |-> IF Len(ExpectedTokens) = Len(SUPPORTED_PERIODS)
                    /\ \A i \in 1..Len(ExpectedTokens) :
                           ExpectedTokens[i] \in Range(real)
                 THEN "passed" ELSE "panic",
         val |-> real]

\* tests::supported_periods_sorted: assert!(current > last) for every i >= 1.
supported_periods_sorted(durations) ==
    [tag |-> IF \A i \in 1..(Len(durations) - 1) :
                    DurLess(Index(durations, i - 1), Index(durations, i))
             THEN "passed" ELSE "panic",
     val |-> durations]

\* ------------------------------------------------------------------------
\* Requested durations and periods
\* ------------------------------------------------------------------------

\* [secs, nanos] shifted by n nanoseconds (n may be negative).
Shift(d, n) ==
    [secs  |-> d.secs + ((d.nanos + n) \div NANOS_PER_SEC),
     nanos |-> (d.nanos + n) % NANOS_PER_SEC]

\* The midpoint of two whole-second durations.
Midpoint(a, b) ==
    [secs  |-> (a.secs + b.secs) \div 2,
     nanos |-> ((a.secs + b.secs) % 2) * (NANOS_PER_SEC \div 2)]

CatalogDurations == Range(period_durations_init)

\* The queries of tests::periods (0 s, 40 s, 12 min, 40 min, 7.1 h, 14 d).
TestQueries ==
    { from_secs(0), from_secs(40), DurMul(from_secs(12), 60),
      DurMul(from_secs(40), 60), from_secs(25560),
      DurMul(DurMul(DurMul(from_secs(14), 60), 60), 24) }

Anchors ==
    CatalogDurations
    \cup { Midpoint(period_durations_init[i], period_durations_init[i + 1]) :
             i \in 1..(Len(SUPPORTED_PERIODS) - 1) }
    \cup TestQueries

\* One nanosecond either side, and up to Window steps either side.
Offsets ==
    {-1, 1} \cup { k * (NANOS_PER_SEC \div NanoSteps) : k \in (-Window)..Window }

Durations ==
    { d \in { Shift(a, n) : a \in Anchors, n \in Offsets } : d.secs >= 0 }

\* Periods handed to Display and to duration(): the catalog and a few
\* periods outside it.
Periods == Range(SUPPORTED_PERIODS) \cup {Second(0), Hour(100), Day(255)}

\* ------------------------------------------------------------------------
\* State
\* ------------------------------------------------------------------------

VARIABLES
    SUPPORTED_PERIOD_DURATIONS,  \* the lazy_static cell: Uninit or the table
    duration,                    \* the duration the caller asks for
    other,                       \* a second duration the caller asks for
    op,                          \* the last operation called
    arg,                         \* its argument
    ret,                         \* what it returned (or Panic)
    eval,                        \* subtractions and index reads it evaluated
    prev                         \* the call before it, if both are get_nearest

vars == <<SUPPORTED_PERIOD_DURATIONS, duration, other, op, arg, ret, eval, prev>>

Uninit == <<>>

None == [tag |-> "none"]

NoEval == [subs |-> {}, reads |-> {}]

\* Dereferencing the lazy_static runs the initialiser once.
Deref ==
    IF SUPPORTED_PERIOD_DURATIONS = Uninit
    THEN period_durations_init
    ELSE SUPPORTED_PERIOD_DURATIONS

Init ==
    /\ SUPPORTED_PERIOD_DURATIONS = Uninit
    /\ duration \in Durations
    /\ other = duration
    /\ op = "none"
    /\ arg = None
    /\ ret = None
    /\ eval = NoEval
    /\ prev = None

\* Two requests, the second at least as long as the first.
InitPair ==
    /\ SUPPORTED_PERIOD_DURATIONS = Uninit
    /\ duration \in Durations
    /\ other \in {d \in Durations : DurLe(duration, d)}
    /\ op = "none"
    /\ arg = None
    /\ ret = None
    /\ eval = NoEval
    /\ prev = None

\* ------------------------------------------------------------------------
\* Operations
\* ------------------------------------------------------------------------

GetNearest(d) ==
    LET o == get_nearest(Deref, d)
    IN  /\ SUPPORTED_PERIOD_DURATIONS' = Deref
        /\ op' = "get_nearest"
        /\ arg' = d
        /\ ret' = Result(o)
        /\ eval' = [subs |-> o.subs, reads |-> o.reads]
        /\ prev' = IF op = "get_nearest" THEN [tag |-> "call", arg |-> arg, ret |-> ret]
                   ELSE None
        /\ UNCHANGED <<duration, other>>

NewExact(d) ==
    /\ SUPPORTED_PERIOD_DURATIONS' = Deref
    /\ op' = "new_exact"
    /\ arg' = d
    /\ ret' = new_exact(Deref, d)
    /\ eval' = NoEval
    /\ prev' = None
    /\ UNCHANGED <<duration, other>>

New(d) ==
    /\ SUPPORTED_PERIOD_DURATIONS' = Deref
    /\ op' = "new"
    /\ arg' = d
    /\ ret' = new(Deref, d)
    /\ eval' = NoEval
    /\ prev' = None
    /\ UNCHANGED <<duration, other>>

PeriodDuration(self) ==
    /\ op' = "duration"
    /\ arg' = self
    /\ ret' = Period_duration(self)
    /\ eval' = NoEval
    /\ prev' = None
    /\ UNCHANGED <<SUPPORTED_PERIOD_DURATIONS, duration, other>>

Display(self) ==
    /\ op' = "to_string"
    /\ arg' = self
    /\ ret' = [tag |-> "Ok", val |-> fmt(self)]
    /\ eval' = NoEval
    /\ prev' = None
    /\ UNCHANGED <<SUPPORTED_PERIOD_DURATIONS, duration, other>>

TestSupportedPeriodsSorted ==
    /\ SUPPORTED_PERIOD_DURATIONS' = Deref
    /\ op' = "supported_periods_sorted"
    /\ arg' = None
    /\ ret' = supported_periods_sorted(Deref)
    /\ eval' = NoEval
    /\ prev' = None
    /\ UNCHANGED <<duration, other>>

TestPeriodFormatting ==
    /\ op' = "period_formattintg"
    /\ arg' = None
    /\ ret' = period_formattintg
    /\ eval' = NoEval
    /\ prev' = None
    /\ UNCHANGED <<SUPPORTED_PERIOD_DURATIONS, duration, other>>

Next ==
    \/ \E d \in {duration, other} : GetNearest(d)
    \/ \E d \in {duration, other} : NewExact(d)
    \/ \E d \in {duration, other} : New(d)
    \/ \E self \in Periods : PeriodDuration(self)
    \/ \E self \in Periods : Display(self)
    \/ TestSupportedPeriodsSorted
    \/ TestPeriodFormatting

Spec == Init /\ [][Next]_vars

\* The caller resolves duration, then other.
NextPair ==
    \/ op = "none" /\ GetNearest(duration)
    \/ op = "get_nearest" /\ prev = None /\ GetNearest(other)

SpecPair == InitPair /\ [][NextPair]_vars

\* ------------------------------------------------------------------------
\* Vocabulary of the properties
\* ------------------------------------------------------------------------

\* The span of a period in whole seconds, by the unit's length.
SpanSeconds(q) ==
    CASE q.unit = "Second" -> q.n
      [] q.unit = "Minute" -> 60 * q.n
      [] q.unit = "Hour"   -> 3600 * q.n
      [] q.unit = "Day"    -> 86400 * q.n

Span(q) == [secs |-> SpanSeconds(q), nanos |-> 0]

CatalogIndices == 0..(Len(SUPPORTED_PERIODS) - 1)

Catalog == Range(SUPPORTED_PERIODS)

IsCatalogSpan(d) == \E q \in Catalog : d = Span(q)

\* The 0-based catalog index of a catalog period.
IndexOf(q) == CHOOSE i \in CatalogIndices : SUPPORTED_PERIODS[i + 1] = q

\* |a - b|
Dist(a, b) == IF DurLess(a, b) THEN DurSub(b, a) ELSE DurSub(a, b)

Ok(q) == [tag |-> "Ok", val |-> q]

Err(q) == [tag |-> "Err", val |-> q]

Initialised == SUPPORTED_PERIOD_DURATIONS # Uninit

\* ------------------------------------------------------------------------
\* C1.  Once computed, SUPPORTED_PERIOD_DURATIONS holds, entry by entry, the
\* span of the catalog period at the same index (n s, 60n s, 3600n s,
\* 86400n s) and is strictly ascending: durations[i-1] < durations[i] for
\* every i in 1..32.
\* ------------------------------------------------------------------------
C1_StrictlyAscending ==
    Initialised =>
        /\ Len(SUPPORTED_PERIOD_DURATIONS) = Len(SUPPORTED_PERIODS)
        /\ \A i \in CatalogIndices :
               Index(SUPPORTED_PERIOD_DURATIONS, i) = Span(Index(SUPPORTED_PERIODS, i))
        /\ \A i \in 1..(Len(SUPPORTED_PERIODS) - 1) :
               DurLess(Index(SUPPORTED_PERIOD_DURATIONS, i - 1),
                       Index(SUPPORTED_PERIOD_DURATIONS, i))

\* The sortedness test has run over the computed table and passed.
C1_Witness ==
    /\ Initialised
    /\ op = "supported_periods_sorted"
    /\ ret.tag = "passed"
    /\ Len(ret.val) = 33

\* ------------------------------------------------------------------------
\* C2.  Exact round trip: get_nearest of the span of the catalog period at
\* index i returns Ok of the period at index i, never an Err.
\* ------------------------------------------------------------------------
C2_ExactRoundTrip ==
    op = "get_nearest" =>
        \A i \in CatalogIndices :
            arg = Span(Index(SUPPORTED_PERIODS, i))
                => ret = Ok(Index(SUPPORTED_PERIODS, i))

\* 12 hours was asked for and 12HRS came back as exact.
C2_Witness ==
    /\ op = "get_nearest"
    /\ arg = from_secs(43200)
    /\ ret = Ok(Hour(12))

\* ------------------------------------------------------------------------
\* C3.  Global nearest: for a duration that is no catalog span, get_nearest
\* returns Err(p) where p is a catalog period whose span is at least as
\* close to the duration as the span of every one of the 33 catalog
\* periods; 40 min -> 30MIN, 12 min -> 10MIN, 7.1 h -> 8HRS, 40 s -> 30SEC.
\* ------------------------------------------------------------------------
C3_GlobalNearest ==
    (op = "get_nearest" /\ ~IsCatalogSpan(arg)) =>
        /\ ret.tag = "Err"
        /\ ret.val \in Catalog
        /\ \A q \in Catalog :
               DurLe(Dist(arg, Span(ret.val)), Dist(arg, Span(q)))
        /\ arg = from_secs(2400)  => ret.val = Minute(30)
        /\ arg = from_secs(720)   => ret.val = Minute(10)
        /\ arg = from_secs(25560) => ret.val = Hour(8)
        /\ arg = from_secs(40)    => ret.val = Second(30)

\* 40 minutes was asked for and 30MIN came back as a mismatch.
C3_Witness ==
    /\ op = "get_nearest"
    /\ arg = from_secs(2400)
    /\ ret = Err(Minute(30))

\* ------------------------------------------------------------------------
\* C4.  Tie-break: for adjacent catalog entries i-1 and i and a duration
\* strictly between their spans, an exact midpoint resolves to Err of the
\* higher entry i, and a duration strictly closer to the lower entry
\* resolves to Err of the lower entry i-1.
\* ------------------------------------------------------------------------
C4_TieBreakHigher ==
    op = "get_nearest" =>
        \A i \in 1..(Len(SUPPORTED_PERIODS) - 1) :
            LET lo == Span(Index(SUPPORTED_PERIODS, i - 1))
                hi == Span(Index(SUPPORTED_PERIODS, i))
            IN  (DurLess(lo, arg) /\ DurLess(arg, hi)) =>
                    /\ Dist(arg, lo) = Dist(hi, arg)
                           => ret = Err(Index(SUPPORTED_PERIODS, i))
                    /\ DurLess(Dist(arg, lo), Dist(hi, arg))
                           => ret = Err(Index(SUPPORTED_PERIODS, i - 1))

\* 1.5 s, midway between 1SEC and 2SEC, was asked for and 2SEC came back.
C4_Witness ==
    /\ op = "get_nearest"
    /\ arg = [secs |-> 1, nanos |-> 500000000]
    /\ ret = Err(Second(2))

\* ------------------------------------------------------------------------
\* C5.  Boundary clamping: a duration below 1 s resolves to Err(Second(1))
\* and a duration above 10 days to Err(Day(10)); in both cases no
\* subtraction is evaluated and every index read is within 0..32.
\* ------------------------------------------------------------------------
C5_BoundaryClamping ==
    op = "get_nearest" =>
        /\ DurLess(arg, from_secs(1)) =>
               /\ ret = Err(Second(1))
               /\ eval.subs = {}
               /\ eval.reads \subseteq CatalogIndices
        /\ DurLess(from_secs(864000), arg) =>
               /\ ret = Err(Day(10))
               /\ eval.subs = {}
               /\ eval.reads \subseteq CatalogIndices

\* 14 days was asked for and 10DAY came back as a mismatch.
C5_Witness ==
    /\ op = "get_nearest"
    /\ arg = from_secs(1209600)
    /\ ret = Err(Day(10))
    /\ eval.subs = {}

\* ------------------------------------------------------------------------
\* C6.  new_exact(d) is Ok(p) exactly when d is a catalog span; otherwise
\* it is an ExactError whose requested is d and whose closest is the period
\* get_nearest(d) reports in Err.
\* ------------------------------------------------------------------------
C6_NewExact ==
    op = "new_exact" =>
        /\ ret.tag = "Ok" <=> IsCatalogSpan(arg)
        /\ ret.tag = "Ok" => ret.val \in Catalog /\ Span(ret.val) = arg
        /\ ret.tag # "Ok" =>
               LET g == get_nearest(SUPPORTED_PERIOD_DURATIONS, arg)
               IN  /\ ret.tag = "Err"
                   /\ ret.val.requested = arg
                   /\ g.tag = "Err"
                   /\ ret.val.closest = g.val

\* 40 s was asked for exactly; the error names 40 s and 30SEC.
C6_Witness ==
    /\ op = "new_exact"
    /\ ret.tag = "Err"
    /\ ret.val = [requested |-> from_secs(40), closest |-> Second(30)]

\* ------------------------------------------------------------------------
\* C7.  new(d) never fails and returns a catalog period: the Ok period of
\* new_exact(d) when d is a catalog span, otherwise the closest of the
\* ExactError of new_exact(d).
\* ------------------------------------------------------------------------
C7_NewTotal ==
    op = "new" =>
        LET e == new_exact(SUPPORTED_PERIOD_DURATIONS, arg)
        IN  /\ ret # Panic
            /\ ret \in Catalog
            /\ IsCatalogSpan(arg) => (e.tag = "Ok" /\ ret = e.val /\ Span(ret) = arg)
            /\ ~IsCatalogSpan(arg) => (e.tag = "Err" /\ ret = e.val.closest)

\* 7.1 h was asked for and new returned 8HRS.
C7_Witness ==
    /\ op = "new"
    /\ arg = from_secs(25560)
    /\ ret = Hour(8)

\* ------------------------------------------------------------------------
\* C8.  Formatting: the catalog period at index i renders as the i-th token
\* of the list 1SEC..30SEC, 1MIN..30MIN, 1HRS..12HRS, 1DAY..10DAY (decimal
\* multiplier, no leading zero, then SEC, MIN, HRS or DAY); rendering the
\* whole catalog gives exactly those 33 tokens, each once.
\* ------------------------------------------------------------------------
C8_Formatting ==
    /\ op = "to_string" =>
           /\ \A i \in CatalogIndices :
                  arg = Index(SUPPORTED_PERIODS, i)
                      => ret = [tag |-> "Ok", val |-> ExpectedTokens[i + 1]]
           /\ arg = Second(0)  => ret.val = "0SEC"
           /\ arg = Hour(100)  => ret.val = "100HRS"
           /\ arg = Day(255)   => ret.val = "255DAY"
    /\ op = "period_formattintg" =>
           /\ ret.tag = "passed"
           /\ Len(ret.val) = 33
           /\ Range(ret.val) = Range(ExpectedTokens)
           /\ Cardinality(Range(ret.val)) = 33

\* 12 hours was rendered as 12HRS.
C8_Witness ==
    /\ op = "to_string"
    /\ arg = Hour(12)
    /\ ret.val = "12HRS"

\* ------------------------------------------------------------------------
\* C9.  duration() of the catalog period at index i completes and returns
\* the span of that period, the entry i of SUPPORTED_PERIOD_DURATIONS
\* (n s, 60n s, 3600n s, 86400n s).
\* ------------------------------------------------------------------------
C9_DurationReturnsSpan ==
    (op = "duration" /\ arg \in Catalog) =>
        /\ ret # Panic
        /\ ret = Span(arg)
        /\ ret = Index(period_durations_init, IndexOf(arg))

\* ------------------------------------------------------------------------
\* C10.  Monotonicity: when get_nearest was called for d1 and then for d2
\* with d1 <= d2, neither call fails and the catalog index of the period
\* chosen for d1 (Ok or Err) is at most that of the period chosen for d2.
\* ------------------------------------------------------------------------
C10_Monotone ==
    (op = "get_nearest" /\ prev.tag = "call" /\ DurLe(prev.arg, arg)) =>
        /\ prev.ret.tag \in {"Ok", "Err"}
        /\ ret.tag \in {"Ok", "Err"}
        /\ prev.ret.val \in Catalog
        /\ ret.val \in Catalog
        /\ IndexOf(prev.ret.val) <= IndexOf(ret.val)

\* Just under 1.5 s went to 1SEC and then 1.5 s itself went to 2SEC.
C10_Witness ==
    /\ op = "get_nearest"
    /\ prev.tag = "call"
    /\ prev.arg = [secs |-> 1, nanos |-> 499999999]
    /\ arg = [secs |-> 1, nanos |-> 500000000]
    /\ prev.ret = Err(Second(1))
    /\ ret = Err(Second(2))

====
